---- MODULE Spec2Model ----
(***************************************************************************)
(* decruft: a scanner thread (scanner.rs, scan_directories) appends cruft  *)
(* directories to a Mutex-guarded Vec while the interactive session        *)
(* (ui.rs, run_ui) renders the filtered view, polls one key per loop       *)
(* iteration and deletes directories.                                      *)
(*                                                                         *)
(* Option<T> values are sequences of length at most one: << >> is None     *)
(* and <<x>> is Some(x).  Indexes keep the source's 0-based counting.      *)
(* A path is the sequence of its bytes; a string is the sequence of its    *)
(* code points.                                                            *)
(***************************************************************************)
EXTENDS Naturals, Integers, Sequences, FiniteSets, TLC

VARIABLES
    found_dirs,         \* Arc<Mutex<Vec<CruftDirectory>>>, main.rs:77
    scan_complete_flag, \* Arc<AtomicBool>, main.rs:80
    visited,            \* number of cruft directories the walker has reached
    disk,               \* paths of the cruft directories present on disk
    selected_index,     \* AppState.selected_index : Option<usize>
    show_help,          \* AppState.show_help
    confirm_delete,     \* AppState.confirm_delete : Option<String>
    min_size_bytes,     \* AppState.min_size_bytes
    show_all_types,     \* AppState.show_all_types
    max_age_days,       \* AppState.max_age_days : Option<u64>
    sort_order,         \* AppState.sort_order
    scan_complete,      \* AppState.scan_complete
    pc,                 \* position of run_ui's loop: "render", "poll", "quit"
    key,                \* key.code of the event read in this iteration
    remove_result,      \* what remove_dir_all returned in this iteration
    walk_stack,         \* WalkDir's stack of open directories (scanner.rs:68)
    max_depth,          \* scan_directories' max_depth
    lock,               \* holder of the Mutex around found_dirs, or "free"
    wpc,                \* position of filter_entry: "walk", "built", "locked"
    cruft_dir           \* filter_entry's local cruft_dir : Option

vars == <<found_dirs, scan_complete_flag, visited, disk, selected_index,
          show_help, confirm_delete, min_size_bytes, show_all_types,
          max_age_days, sort_order, scan_complete, pc, key, remove_result,
          walk_stack, max_depth, lock, wpc, cruft_dir>>

\* the Mutex and the scanner's position around it (SpecLock)
lock_vars == <<lock, wpc, cruft_dir>>

\* the traversal state of the walk over a directory tree (SpecWalk)
walk_vars == <<walk_stack, max_depth, lock, wpc, cruft_dir>>

app_vars == <<selected_index, show_help, confirm_delete, min_size_bytes,
              show_all_types, max_age_days, sort_order, scan_complete>>

----------------------------------------------------------------------------
(* Bounds and inputs *)

\* number of cruft directories in the scanned tree (at most 5)
NumDirs == 3

None == << >>
Some(x) == <<x>>

MB == 1048576

\* The scanned tree: the directories the walk classifies as cruft, in the
\* order in which WalkDir reaches them.  The paths are "/c", "/e", "/b",
\* "/d", "/a" as bytes, so that path order differs from visiting order.
TreePath(i) == <<47, 97 + ((i * 2) % 5)>>

TreeSize(i) == <<2 * MB, 10 * MB, 524288, 10 * MB, 3 * MB>>[i]

TreeReason(i) == <<"NodeModules", "DistDir", "BuildDir", "TempDir", "CacheDir">>[i]

TreeAge(i) == <<2, 200, 400, 95, 0>>[i]

TreePaths == {TreePath(i) : i \in 1..NumDirs}

\* directories whose recursive removal fails (permission denied)
Locked == {TreePath(1)}

----------------------------------------------------------------------------
(* Paths and strings *)

\* Path::to_string_lossy: ASCII bytes are kept, a byte that is not part of
\* valid UTF-8 becomes U+FFFD
to_string_lossy(path) ==
    [i \in DOMAIN path |-> IF path[i] < 128 THEN path[i] ELSE 65533]

\* PathBuf::from(&String): the UTF-8 bytes of the string
RECURSIVE PathBufFrom(_)
PathBufFrom(str) ==
    IF str = << >> THEN << >>
    ELSE (IF Head(str) < 128 THEN <<Head(str)>> ELSE <<239, 191, 189>>)
         \o PathBufFrom(Tail(str))

\* str::cmp: lexicographic order; -1 Less, 0 Equal, 1 Greater
RECURSIVE StrCmp(_, _)
StrCmp(a, b) ==
    IF a = << >> THEN (IF b = << >> THEN 0 ELSE -1)
    ELSE IF b = << >> THEN 1
    ELSE IF Head(a) < Head(b) THEN -1
    ELSE IF Head(a) > Head(b) THEN 1
    ELSE StrCmp(Tail(a), Tail(b))

----------------------------------------------------------------------------
(* scanner.rs *)

is_common_cruft_Mutant(reason) ==
    reason \in {"NodeModules", "CacheDir", "CacheTagFound", "BuildDir",
                "VenvDir", "ToxDir", "DistDir"}

is_common_cruft(reason) ==
    reason \in {"NodeModules", "CacheDir", "CacheTagFound", "BuildDir",
                "VenvDir", "ToxDir"}

\* the CruftDirectory scan_directories builds for the i-th cruft directory
CruftDirectory_Mutant(i) ==
    LET j == IF i > 1 THEN i - 1 ELSE i
    IN  [path |-> TreePath(j), size |-> TreeSize(j),
         crufty_reason |-> TreeReason(j), newest_file_age_days |-> TreeAge(j)]

CruftDirectory(i) ==
    [path |-> TreePath(i), size |-> TreeSize(i),
     crufty_reason |-> TreeReason(i), newest_file_age_days |-> TreeAge(i)]

\* std::fs::remove_dir_all(path) returns Ok
remove_dir_all_ok(path) == path \in disk /\ path \notin Locked

----------------------------------------------------------------------------
(* scanner.rs: the string literals of the classifier, as code points *)

s_node_modules == <<110, 111, 100, 101, 95, 109, 111, 100, 117, 108, 101, 115>>  \* "node_modules"

s_dotcache == <<46, 99, 97, 99, 104, 101>>  \* ".cache"

s_cache == <<99, 97, 99, 104, 101>>  \* "cache"

s_build == <<98, 117, 105, 108, 100>>  \* "build"

s_target == <<116, 97, 114, 103, 101, 116>>  \* "target"

s_tmp == <<116, 109, 112>>  \* "tmp"

s_temp == <<116, 101, 109, 112>>  \* "temp"

s_dottmp == <<46, 116, 109, 112>>  \* ".tmp"

s_dottemp == <<46, 116, 101, 109, 112>>  \* ".temp"

s_tempdash == <<116, 101, 109, 112, 45>>  \* "temp-"

s_tmpdash == <<116, 109, 112, 45>>  \* "tmp-"

s_dashtemp == <<45, 116, 101, 109, 112>>  \* "-temp"

s_dashtmp == <<45, 116, 109, 112>>  \* "-tmp"

s_venv == <<118, 101, 110, 118>>  \* "venv"

s_env == <<101, 110, 118>>  \* "env"

s_dotvenv == <<46, 118, 101, 110, 118>>  \* ".venv"

s_dotenv == <<46, 101, 110, 118>>  \* ".env"

s_virtualenv == <<118, 105, 114, 116, 117, 97, 108, 101, 110, 118>>  \* "virtualenv"

s_dist == <<100, 105, 115, 116>>  \* "dist"

s_out == <<111, 117, 116>>  \* "out"

s_dottox == <<46, 116, 111, 120>>  \* ".tox"

s_CACHEDIRdotTAG == <<67, 65, 67, 72, 69, 68, 73, 82, 46, 84, 65, 71>>  \* "CACHEDIR.TAG"

s_dotgit == <<46, 103, 105, 116>>  \* ".git"

s_dotgithub == <<46, 103, 105, 116, 104, 117, 98>>  \* ".github"

s_dotvscode == <<46, 118, 115, 99, 111, 100, 101>>  \* ".vscode"

s_dotidea == <<46, 105, 100, 101, 97>>  \* ".idea"

s_node_modulesslashdotbin == <<110, 111, 100, 101, 95, 109, 111, 100, 117, 108, 101, 115, 47, 46, 98, 105, 110>>  \* "node_modules/.bin"

s_slash == <<47>>  \* "/"

----------------------------------------------------------------------------
(* String and path operations used by the classifier *)

\* str::contains
Contains(str, pat) ==
    \E i \in 0..(Len(str) - Len(pat)) : SubSeq(str, i + 1, i + Len(pat)) = pat

\* str::starts_with
StartsWith(str, pat) ==
    Len(pat) <= Len(str) /\ SubSeq(str, 1, Len(pat)) = pat

\* str::ends_with
EndsWith(str, pat) ==
    /\ Len(pat) <= Len(str)
    /\ SubSeq(str, Len(str) - Len(pat) + 1, Len(str)) = pat

\* str::to_lowercase, on ASCII letters
to_lowercase(str) ==
    [i \in DOMAIN str |->
        IF str[i] >= 65 /\ str[i] <= 90 THEN str[i] + 32 ELSE str[i]]

\* str::rsplit('/').next(): what follows the last '/', the whole string if
\* there is none
RSplitFirst(str) ==
    LET cuts == {i \in DOMAIN str : str[i] = 47}
        last == IF cuts = {} THEN 0
                ELSE CHOOSE i \in cuts : \A j \in cuts : j <= i
    IN  SubSeq(str, last + 1, Len(str))

\* Path::file_name of a path without a trailing separator: the last
\* component, None when that is the root, "." or ".."
file_name(path) ==
    LET last == RSplitFirst(path)
    IN  IF last \in {<< >>, <<46>>, <<46, 46>>} THEN None ELSE Some(last)

\* Path::join with a relative name
PathJoin(path, child) ==
    IF path # << >> /\ path[Len(path)] = 47 THEN path \o child
    ELSE path \o s_slash \o child

----------------------------------------------------------------------------
(* scanner.rs: is_protected_directory, check_crufty *)

PROTECTED_DIRS ==
    <<s_dotgit, s_dotgithub, s_dotvscode, s_dotidea, s_node_modulesslashdotbin>>

is_protected_directory(path) ==
    LET path_str == to_string_lossy(path)
    IN  \/ \E k \in DOMAIN PROTECTED_DIRS :
               Contains(path_str, s_slash \o PROTECTED_DIRS[k] \o s_slash)
        \/ \E k \in DOMAIN PROTECTED_DIRS :
               PROTECTED_DIRS[k] = RSplitFirst(path_str)

\* check_crufty(path): Some(reason) or None; has_tag says that
\* path/CACHEDIR.TAG exists
check_crufty(path, has_tag) ==
    LET path_str == to_string_lossy(path)
        name == IF file_name(path) = None THEN << >>
                ELSE to_lowercase(to_string_lossy(file_name(path)[1]))
    IN  IF is_protected_directory(path) THEN None
        ELSE IF file_name(path) = None THEN None
        ELSE IF name = s_node_modules THEN Some("NodeModules")
        ELSE IF Contains(path_str, s_dotcache) \/ Contains(name, s_cache)
             THEN Some("CacheDir")
        ELSE IF name = s_build \/ name = s_target \/ Contains(name, s_build)
             THEN Some("BuildDir")
        ELSE IF \/ name = s_tmp \/ name = s_temp
                \/ name = s_dottmp \/ name = s_dottemp
                \/ StartsWith(name, s_tempdash) \/ StartsWith(name, s_tmpdash)
                \/ EndsWith(name, s_dashtemp) \/ EndsWith(name, s_dashtmp)
             THEN Some("TempDir")
        ELSE IF \/ name = s_venv \/ name = s_env
                \/ name = s_dotvenv \/ name = s_dotenv
                \/ StartsWith(name, s_virtualenv)
             THEN Some("VenvDir")
        ELSE IF name = s_dist \/ name = s_out \/ Contains(name, s_dist)
             THEN Some("DistDir")
        ELSE IF name = s_dottox THEN Some("ToxDir")
        ELSE IF has_tag THEN Some("CacheTagFound")
        ELSE None

----------------------------------------------------------------------------
(* The directory tree scanned in SpecWalk *)

s_w == <<119>>  \* "w"

s_proj == <<112, 114, 111, 106>>  \* "proj"

s_app == <<97, 112, 112>>  \* "app"

s_dotbin == <<46, 98, 105, 110>>  \* ".bin"

s_repo == <<114, 101, 112, 111>>  \* "repo"

s_src == <<115, 114, 99>>  \* "src"

s_templates == <<116, 101, 109, 112, 108, 97, 116, 101, 115>>  \* "templates"

s_rebuilddashnotes == <<114, 101, 98, 117, 105, 108, 100, 45, 110, 111, 116, 101, 115>>  \* "rebuild-notes"

s_py == <<112, 121>>  \* "py"

s_mydashprojectdashtmp == <<109, 121, 45, 112, 114, 111, 106, 101, 99, 116, 45, 116, 109, 112>>  \* "my-project-tmp"

s_tagged == <<116, 97, 103, 103, 101, 100>>  \* "tagged"

s_dot == <<46>>  \* "."

\* The directories of the tree.  name: the directory's name; parent: the
\* index of its parent (0: none); bytes: the total length of the regular
\* files directly in it; newest: the age in seconds of the most recently
\* modified of these files (None: no file); mtime: the age in seconds of
\* the directory's own modification time; tag: it holds a CACHEDIR.TAG file.
FsDirs ==
    << [name |-> s_w, parent |-> 0, bytes |-> 0,
        newest |-> None, mtime |-> 86400, tag |-> FALSE],
       [name |-> s_proj, parent |-> 1, bytes |-> 0,
        newest |-> None, mtime |-> 86400, tag |-> FALSE],
       [name |-> s_app, parent |-> 2, bytes |-> 0,
        newest |-> None, mtime |-> 86400, tag |-> FALSE],
       [name |-> s_node_modules, parent |-> 3, bytes |-> 6 * MB,
        newest |-> Some(2 * 86400 + 3600), mtime |-> 86400, tag |-> FALSE],
       [name |-> s_dotbin, parent |-> 4, bytes |-> 4 * MB,
        newest |-> Some(5 * 86400), mtime |-> 86400, tag |-> FALSE],
       [name |-> s_dist, parent |-> 3, bytes |-> 2 * MB,
        newest |-> Some(200 * 86400 + 7200), mtime |-> 86400, tag |-> FALSE],
       [name |-> s_repo, parent |-> 1, bytes |-> 4096,
        newest |-> Some(3600), mtime |-> 3600, tag |-> FALSE],
       [name |-> s_dotgit, parent |-> 7, bytes |-> MB,
        newest |-> Some(3600), mtime |-> 3600, tag |-> FALSE],
       [name |-> s_build, parent |-> 8, bytes |-> 3 * MB,
        newest |-> Some(400 * 86400), mtime |-> 86400, tag |-> FALSE],
       [name |-> s_src, parent |-> 7, bytes |-> 8192,
        newest |-> Some(86400), mtime |-> 86400, tag |-> FALSE],
       [name |-> s_templates, parent |-> 10, bytes |-> 1024,
        newest |-> Some(30 * 86400), mtime |-> 86400, tag |-> FALSE],
       [name |-> s_rebuilddashnotes, parent |-> 10, bytes |-> 2048,
        newest |-> Some(30 * 86400), mtime |-> 86400, tag |-> FALSE],
       [name |-> s_py, parent |-> 7, bytes |-> 0,
        newest |-> None, mtime |-> 86400, tag |-> FALSE],
       [name |-> s_dottox, parent |-> 13, bytes |-> 5 * MB,
        newest |-> Some(100 * 86400), mtime |-> 86400, tag |-> FALSE],
       [name |-> s_mydashprojectdashtmp, parent |-> 13, bytes |-> 0,
        newest |-> None, mtime |-> 95 * 86400 + 86399, tag |-> FALSE],
       [name |-> s_tagged, parent |-> 13, bytes |-> 2 * MB,
        newest |-> Some(365 * 86400), mtime |-> 86400, tag |-> TRUE],
       [name |-> s_target, parent |-> 7, bytes |-> 20 * MB,
        newest |-> Some(10 * 86400), mtime |-> 86400, tag |-> FALSE],
       [name |-> s_build, parent |-> 17, bytes |-> MB,
        newest |-> Some(12 * 86400), mtime |-> 86400, tag |-> FALSE],
       [name |-> s_build, parent |-> 13, bytes |-> 2 * MB,
        newest |-> Some(30 * 86400), mtime |-> 86400, tag |-> FALSE] >>

\* the directories that hold the build tool's marker file: /w/repo/target
MarkerDirs == {17}

FsChildren(n) == {m \in DOMAIN FsDirs : FsDirs[m].parent = n}

\* n and the directories below it
RECURSIVE FsSubtree(_)
FsSubtree(n) == {n} \cup UNION {FsSubtree(m) : m \in FsChildren(n)}

RECURSIVE SumBytes(_)
SumBytes(nodes) ==
    IF nodes = {} THEN 0
    ELSE LET n == CHOOSE n \in nodes : TRUE
         IN  FsDirs[n].bytes + SumBytes(nodes \ {n})

\* calculate_dir_size: the lengths of all regular files below the directory
calculate_dir_size(n) == SumBytes(FsSubtree(n))

\* get_newest_file_age_days: whole days since the newest modification of a
\* file below the directory, or of the directory itself if it has no file
get_newest_file_age_days(n) ==
    LET ages == {FsDirs[m].newest[1] :
                     m \in {k \in FsSubtree(n) : FsDirs[k].newest # None}}
        secs == IF ages = {} THEN FsDirs[n].mtime
                ELSE CHOOSE a \in ages : \A b \in ages : a <= b
    IN  secs \div 86400

\* the start_dir arguments tried: the directory and the way it is written
StartDirs ==
    {[node |-> 2, path |-> s_dot],
     [node |-> 7, path |-> s_dot],
     [node |-> 7, path |-> s_slash \o s_w \o s_slash \o s_repo],
     [node |-> 8, path |-> s_dotgit],
     [node |-> 1, path |-> s_slash \o s_w]}

\* largest max_depth argument tried
MaxDepth == 3

----------------------------------------------------------------------------
(* ui.rs: SortOrder, AppState *)

ALL_ORDERS == <<"SizeDescending", "AgeDescending", "Alphabetical">>

AGE_OPTIONS == <<None, Some(90), Some(180), Some(365)>>

\* iter().position(..).unwrap_or(0), 0-based
PositionOrZero_Mutant(all, val) == 0

PositionOrZero(all, val) ==
    IF \E i \in DOMAIN all : all[i] = val
    THEN (CHOOSE i \in DOMAIN all :
              all[i] = val /\ \A j \in DOMAIN all : all[j] = val => i <= j) - 1
    ELSE 0

SortOrderNext(order) ==
    ALL_ORDERS[((PositionOrZero(ALL_ORDERS, order) + 1) % Len(ALL_ORDERS)) + 1]

toggle_skip_small(min) == IF min < MB THEN MB ELSE 0

toggle_old_dirs(age) ==
    AGE_OPTIONS[((PositionOrZero(AGE_OPTIONS, age) + 1) % Len(AGE_OPTIONS)) + 1]

\* AppState::cancel_delete_confirmation: the new confirm_delete
cancel_delete_confirmation_Mutant(confirm) == confirm

cancel_delete_confirmation(confirm) == None

\* AppState::next: the new selected_index
next(sel, items_len) ==
    IF items_len = 0 THEN sel
    ELSE IF sel = None THEN Some(0)
    ELSE IF sel[1] >= items_len - 1 THEN Some(items_len - 1)
    ELSE Some(sel[1] + 1)

\* AppState::previous: the new selected_index
previous(sel, items_len) ==
    IF items_len = 0 THEN sel
    ELSE IF sel = None THEN Some(0)
    ELSE IF sel[1] = 0 THEN Some(0)
    ELSE Some(sel[1] - 1)

----------------------------------------------------------------------------
(* ui.rs: filter_dirs *)

FilterPred_MutantBelow(dir, min, all_types, max_age) ==
    LET size_ok == dir.size <= min
        type_ok == all_types \/ is_common_cruft(dir.crufty_reason)
        age_ok == IF max_age # None
                  THEN dir.newest_file_age_days >= max_age[1]
                  ELSE TRUE
    IN  size_ok /\ type_ok /\ age_ok

FilterPred_Mutant(dir, min, all_types, max_age) ==
    LET size_ok == dir.size > min
        type_ok == all_types \/ is_common_cruft(dir.crufty_reason)
        age_ok == IF max_age # None
                  THEN dir.newest_file_age_days >= max_age[1]
                  ELSE TRUE
    IN  size_ok /\ type_ok /\ age_ok

FilterPred(dir, min, all_types, max_age) ==
    LET size_ok == dir.size >= min
        type_ok == all_types \/ is_common_cruft(dir.crufty_reason)
        age_ok == IF max_age # None
                  THEN dir.newest_file_age_days >= max_age[1]
                  ELSE TRUE
    IN  size_ok /\ type_ok /\ age_ok

\* the comparator given to sort_by says a is Less than b
SortLess(order, a, b) ==
    CASE order = "SizeDescending" -> b.size < a.size
      [] order = "AgeDescending" ->
             b.newest_file_age_days < a.newest_file_age_days
      [] order = "Alphabetical" ->
             StrCmp(to_string_lossy(a.path), to_string_lossy(b.path)) < 0

\* slice::sort_by is a stable sort: an element goes after the elements the
\* comparator puts before it and after the equal ones that preceded it
StableSort_Mutant(s, order) ==
    LET rank(i) == Cardinality({j \in DOMAIN s :
                        \/ SortLess(order, s[j], s[i])
                        \/ (~SortLess(order, s[i], s[j]) /\ j > i)})
    IN  [k \in DOMAIN s |-> s[CHOOSE i \in DOMAIN s : rank(i) = k - 1]]

StableSort(s, order) ==
    LET rank(i) == Cardinality({j \in DOMAIN s :
                        \/ SortLess(order, s[j], s[i])
                        \/ (~SortLess(order, s[i], s[j]) /\ j < i)})
    IN  [k \in DOMAIN s |-> s[CHOOSE i \in DOMAIN s : rank(i) = k - 1]]

filter_dirs(dirs, min, all_types, max_age, order) ==
    LET keep(dir) == FilterPred(dir, min, all_types, max_age)
    IN  StableSort(SelectSeq(dirs, keep), order)

\* the view the session currently shows
View == filter_dirs(found_dirs, min_size_bytes, show_all_types,
                    max_age_days, sort_order)

\* Vec::retain(|dir| dir.path != path)
RetainPath(dirs, path) ==
    LET keep(dir) == dir.path # path IN SelectSeq(dirs, keep)

\* Vec::retain(|dir| dir.path.to_string_lossy() != path_str)
RetainPathStr(dirs, path_str) ==
    LET keep(dir) == to_string_lossy(dir.path) # path_str
    IN  SelectSeq(dirs, keep)

----------------------------------------------------------------------------
(* Initial state: AppState::new and run_with_tui *)

Init ==
    /\ found_dirs = << >>
    /\ scan_complete_flag = FALSE
    /\ visited = 0
    /\ disk = TreePaths
    /\ selected_index = Some(0)
    /\ show_help = FALSE
    /\ confirm_delete = None
    /\ min_size_bytes \in {0, MB}
    /\ show_all_types \in BOOLEAN
    /\ \E show_old_dirs \in BOOLEAN :
           max_age_days = IF show_old_dirs THEN Some(90) ELSE None
    /\ sort_order = "SizeDescending"
    /\ scan_complete = FALSE
    /\ pc = "render"
    /\ key = "none"
    /\ remove_result = "none"
    /\ walk_stack = << >>
    /\ max_depth = 0
    /\ lock = "free"
    /\ wpc = "walk"
    /\ cruft_dir = None

----------------------------------------------------------------------------
(* The scanner thread *)

\* filter_entry reaches the next cruft directory, measures it and pushes it
WalkerAppend ==
    /\ pc # "exited"
    /\ UNCHANGED walk_vars
    /\ visited < NumDirs
    /\ visited' = visited + 1
    /\ found_dirs' = Append(found_dirs, CruftDirectory(visited + 1))
    /\ UNCHANGED <<scan_complete_flag, disk, pc, key, remove_result>>
    /\ UNCHANGED app_vars

\* scan_directories has returned
WalkerFinish_Mutant ==
    /\ pc # "exited"
    /\ UNCHANGED walk_vars
    /\ ~scan_complete_flag
    /\ scan_complete_flag' = TRUE
    /\ UNCHANGED <<found_dirs, visited, disk, pc, key, remove_result>>
    /\ UNCHANGED app_vars

WalkerFinish ==
    /\ pc # "exited"
    /\ UNCHANGED walk_vars
    /\ visited = NumDirs
    /\ ~scan_complete_flag
    /\ scan_complete_flag' = TRUE
    /\ UNCHANGED <<found_dirs, visited, disk, pc, key, remove_result>>
    /\ UNCHANGED app_vars

----------------------------------------------------------------------------
(* The session loop *)

\* terminal.draw: "Ensure the selected index is valid"
ClampSelection_Mutant(sel, len) ==
    IF sel # None /\ sel[1] > len
    THEN (IF len = 0 THEN None ELSE Some(len - 1))
    ELSE sel

ClampSelection(sel, len) ==
    IF sel # None /\ sel[1] >= len
    THEN (IF len = 0 THEN None ELSE Some(len - 1))
    ELSE sel

\* completion check and terminal.draw
Render ==
    /\ pc = "render"
    /\ UNCHANGED walk_vars
    /\ scan_complete' = (scan_complete \/ scan_complete_flag)
    /\ selected_index' = ClampSelection(selected_index, Len(View))
    /\ pc' = "poll"
    /\ key' = "none"
    /\ remove_result' = "none"
    /\ UNCHANGED <<found_dirs, scan_complete_flag, visited, disk, show_help,
                   confirm_delete, min_size_bytes, show_all_types,
                   max_age_days, sort_order>>

\* event::poll timed out, or the event is no key or a key without a binding
PollTimeout ==
    /\ pc = "poll"
    /\ UNCHANGED walk_vars
    /\ key' = "none"
    /\ remove_result' = "none"
    /\ pc' = "render"
    /\ UNCHANGED <<found_dirs, scan_complete_flag, visited, disk>>
    /\ UNCHANGED app_vars

KeyQ ==
    /\ pc = "poll"
    /\ UNCHANGED walk_vars
    /\ key' = "q"
    /\ remove_result' = "none"
    /\ pc' = "quit"
    /\ UNCHANGED <<found_dirs, scan_complete_flag, visited, disk>>
    /\ UNCHANGED app_vars

KeyDown ==
    /\ pc = "poll"
    /\ UNCHANGED walk_vars
    /\ key' = "Down"
    /\ remove_result' = "none"
    /\ selected_index' = next(selected_index, Len(found_dirs))
    /\ pc' = "render"
    /\ UNCHANGED <<found_dirs, scan_complete_flag, visited, disk, show_help,
                   confirm_delete, min_size_bytes, show_all_types,
                   max_age_days, sort_order, scan_complete>>

KeyUp ==
    /\ pc = "poll"
    /\ UNCHANGED walk_vars
    /\ key' = "Up"
    /\ remove_result' = "none"
    /\ selected_index' = previous(selected_index, Len(found_dirs))
    /\ pc' = "render"
    /\ UNCHANGED <<found_dirs, scan_complete_flag, visited, disk, show_help,
                   confirm_delete, min_size_bytes, show_all_types,
                   max_age_days, sort_order, scan_complete>>

KeyH ==
    /\ pc = "poll"
    /\ UNCHANGED walk_vars
    /\ key' = "h"
    /\ remove_result' = "none"
    /\ show_help' = ~show_help
    /\ pc' = "render"
    /\ UNCHANGED <<found_dirs, scan_complete_flag, visited, disk,
                   selected_index, confirm_delete, min_size_bytes,
                   show_all_types, max_age_days, sort_order, scan_complete>>

KeyA ==
    /\ pc = "poll"
    /\ UNCHANGED walk_vars
    /\ key' = "a"
    /\ remove_result' = "none"
    /\ show_all_types' = ~show_all_types
    /\ pc' = "render"
    /\ UNCHANGED <<found_dirs, scan_complete_flag, visited, disk,
                   selected_index, show_help, confirm_delete, min_size_bytes,
                   max_age_days, sort_order, scan_complete>>

KeyS ==
    /\ pc = "poll"
    /\ UNCHANGED walk_vars
    /\ key' = "s"
    /\ remove_result' = "none"
    /\ min_size_bytes' = toggle_skip_small(min_size_bytes)
    /\ pc' = "render"
    /\ UNCHANGED <<found_dirs, scan_complete_flag, visited, disk,
                   selected_index, show_help, confirm_delete, show_all_types,
                   max_age_days, sort_order, scan_complete>>

KeyO ==
    /\ pc = "poll"
    /\ UNCHANGED walk_vars
    /\ key' = "o"
    /\ remove_result' = "none"
    /\ max_age_days' = toggle_old_dirs(max_age_days)
    /\ pc' = "render"
    /\ UNCHANGED <<found_dirs, scan_complete_flag, visited, disk,
                   selected_index, show_help, confirm_delete, min_size_bytes,
                   show_all_types, sort_order, scan_complete>>

KeyR_Mutant ==
    /\ pc = "poll"
    /\ UNCHANGED walk_vars
    /\ key' = "r"
    /\ remove_result' = "none"
    /\ sort_order' = SortOrderNext(sort_order)
    /\ found_dirs' = StableSort(found_dirs, sort_order')
    /\ pc' = "render"
    /\ UNCHANGED <<scan_complete_flag, visited, disk,
                   selected_index, show_help, confirm_delete, min_size_bytes,
                   show_all_types, max_age_days, scan_complete>>

KeyR ==
    /\ pc = "poll"
    /\ UNCHANGED walk_vars
    /\ key' = "r"
    /\ remove_result' = "none"
    /\ sort_order' = SortOrderNext(sort_order)
    /\ pc' = "render"
    /\ UNCHANGED <<found_dirs, scan_complete_flag, visited, disk,
                   selected_index, show_help, confirm_delete, min_size_bytes,
                   show_all_types, max_age_days, scan_complete>>

\* the path 'd' hands to request_delete_confirmation
RequestedPath_Mutant(sel, filtered_dirs) ==
    to_string_lossy(found_dirs[sel[1] + 1].path)

RequestedPath(sel, filtered_dirs) ==
    to_string_lossy(filtered_dirs[sel[1] + 1].path)

\* 'd': request confirmation
KeyD ==
    /\ pc = "poll"
    /\ UNCHANGED walk_vars
    /\ key' = "d"
    /\ remove_result' = "none"
    /\ confirm_delete' =
           IF selected_index # None /\ selected_index[1] < Len(View)
           THEN Some(RequestedPath(selected_index, View))
           ELSE confirm_delete
    /\ pc' = "render"
    /\ UNCHANGED <<found_dirs, scan_complete_flag, visited, disk,
                   selected_index, show_help, min_size_bytes, show_all_types,
                   max_age_days, sort_order, scan_complete>>

\* the selected_index after a deletion left dirs in the registry
SelectionAfterDelete_Mutant(sel, dirs) ==
    LET remaining == filter_dirs(dirs, min_size_bytes, show_all_types,
                                 max_age_days, sort_order)
    IN  IF Len(remaining) = 0 THEN None ELSE sel

SelectionAfterDelete(sel, dirs) ==
    LET remaining == filter_dirs(dirs, min_size_bytes, show_all_types,
                                 max_age_days, sort_order)
    IN  IF Len(remaining) = 0 THEN None
        ELSE IF sel # None /\ sel[1] >= Len(remaining)
             THEN Some(Len(remaining) - 1)
             ELSE sel

\* 'D': delete the selected directory at once
KeyShiftD ==
    /\ pc = "poll"
    /\ UNCHANGED walk_vars
    /\ key' = "D"
    /\ IF selected_index # None /\ selected_index[1] < Len(View)
       THEN LET path_to_delete == View[selected_index[1] + 1].path
            IN  IF remove_dir_all_ok(path_to_delete)
                THEN /\ remove_result' = "ok"
                     /\ disk' = disk \ {path_to_delete}
                     /\ found_dirs' = RetainPath(found_dirs, path_to_delete)
                     /\ selected_index' =
                            SelectionAfterDelete(selected_index, found_dirs')
                ELSE /\ remove_result' = "err"
                     /\ UNCHANGED <<disk, found_dirs, selected_index>>
       ELSE /\ remove_result' = "none"
            /\ UNCHANGED <<disk, found_dirs, selected_index>>
    /\ pc' = "render"
    /\ UNCHANGED <<scan_complete_flag, visited, show_help, confirm_delete,
                   min_size_bytes, show_all_types, max_age_days, sort_order,
                   scan_complete>>

\* 'y': confirm the pending deletion
KeyY_Mutant ==
    /\ pc = "poll"
    /\ UNCHANGED walk_vars
    /\ key' = "y"
    /\ IF confirm_delete # None
       THEN LET path_str ==
                    IF selected_index # None /\ selected_index[1] < Len(View)
                    THEN to_string_lossy(View[selected_index[1] + 1].path)
                    ELSE confirm_delete[1]
                path == PathBufFrom(path_str)
            IN  /\ confirm_delete' = None
                /\ found_dirs' = RetainPathStr(found_dirs, path_str)
                /\ selected_index' =
                       SelectionAfterDelete(selected_index, found_dirs')
                /\ remove_result' =
                       IF remove_dir_all_ok(path) THEN "ok" ELSE "err"
                /\ disk' = IF remove_dir_all_ok(path)
                           THEN disk \ {path} ELSE disk
       ELSE /\ remove_result' = "none"
            /\ UNCHANGED <<confirm_delete, found_dirs, selected_index, disk>>
    /\ pc' = "render"
    /\ UNCHANGED <<scan_complete_flag, visited, show_help, min_size_bytes,
                   show_all_types, max_age_days, sort_order, scan_complete>>

KeyY ==
    /\ pc = "poll"
    /\ UNCHANGED walk_vars
    /\ key' = "y"
    /\ IF confirm_delete # None
       THEN LET path_str == confirm_delete[1]
                path == PathBufFrom(path_str)
            IN  /\ confirm_delete' = None
                /\ found_dirs' = RetainPathStr(found_dirs, path_str)
                /\ selected_index' =
                       SelectionAfterDelete(selected_index, found_dirs')
                /\ remove_result' =
                       IF remove_dir_all_ok(path) THEN "ok" ELSE "err"
                /\ disk' = IF remove_dir_all_ok(path)
                           THEN disk \ {path} ELSE disk
       ELSE /\ remove_result' = "none"
            /\ UNCHANGED <<confirm_delete, found_dirs, selected_index, disk>>
    /\ pc' = "render"
    /\ UNCHANGED <<scan_complete_flag, visited, show_help, min_size_bytes,
                   show_all_types, max_age_days, sort_order, scan_complete>>

\* 'n': cancel the pending deletion
KeyN_Mutant ==
    /\ pc = "poll"
    /\ UNCHANGED walk_vars
    /\ key' = "n"
    /\ remove_result' = "none"
    /\ confirm_delete' = cancel_delete_confirmation(confirm_delete)
    /\ selected_index' = Some(0)
    /\ pc' = "render"
    /\ UNCHANGED <<found_dirs, scan_complete_flag, visited, disk,
                   show_help, min_size_bytes, show_all_types,
                   max_age_days, sort_order, scan_complete>>

KeyN ==
    /\ pc = "poll"
    /\ UNCHANGED walk_vars
    /\ key' = "n"
    /\ remove_result' = "none"
    /\ confirm_delete' = cancel_delete_confirmation(confirm_delete)
    /\ pc' = "render"
    /\ UNCHANGED <<found_dirs, scan_complete_flag, visited, disk,
                   selected_index, show_help, min_size_bytes, show_all_types,
                   max_age_days, sort_order, scan_complete>>

\* run_ui has returned: run_with_tui restores the terminal and main returns
ProcessExit ==
    /\ pc = "quit"
    /\ UNCHANGED walk_vars
    /\ pc' = "exited"
    /\ UNCHANGED <<found_dirs, scan_complete_flag, visited, disk, key,
                   remove_result>>
    /\ UNCHANGED app_vars

Next ==
    \/ WalkerAppend
    \/ WalkerFinish
    \/ Render
    \/ PollTimeout
    \/ KeyQ
    \/ KeyDown
    \/ KeyUp
    \/ KeyH
    \/ KeyA
    \/ KeyS
    \/ KeyO
    \/ KeyR
    \/ KeyD
    \/ KeyShiftD
    \/ KeyY
    \/ KeyN
    \/ ProcessExit

Spec == Init /\ [][Next]_vars

----------------------------------------------------------------------------
(* scan_directories over the directory tree *)

\* a WalkDir entry: the directory, its path and its depth below start_dir
DirEntry(n, path, depth) == [node |-> n, path |-> path, depth |-> depth]

\* the directories WalkDir lists when it opens entry e
ChildEntries(e) ==
    {DirEntry(m, PathJoin(e.path, FsDirs[m].name), e.depth + 1) :
         m \in FsChildren(e.node)}

\* the CruftDirectory filter_entry builds for entry e
FoundCruft(e, reason) ==
    [path |-> e.path, size |-> calculate_dir_size(e.node),
     crufty_reason |-> reason,
     newest_file_age_days |-> get_newest_file_age_days(e.node)]

\* filter_entry says that entry e is cruft: Some(reason), or None
FilterEntryCruft(e) == check_crufty(e.path, FsDirs[e.node].tag)

InitWalk ==
    /\ found_dirs = << >>
    /\ scan_complete_flag = FALSE
    /\ visited = 0
    /\ disk = {}
    /\ selected_index = Some(0)
    /\ show_help = FALSE
    /\ confirm_delete = None
    /\ min_size_bytes = MB
    /\ show_all_types \in BOOLEAN
    /\ max_age_days = None
    /\ sort_order = "SizeDescending"
    /\ scan_complete = FALSE
    /\ pc = "render"
    /\ key = "none"
    /\ remove_result = "none"
    /\ \E start \in StartDirs :
           walk_stack = << {DirEntry(start.node, start.path, 0)} >>
    /\ max_depth \in 1..MaxDepth
    /\ lock = "free"
    /\ wpc = "walk"
    /\ cruft_dir = None

\* the next directory WalkDir yields is cruft: it is pushed to the Registry
\* and the walk does not descend into it
WalkCruft_Mutant ==
    /\ walk_stack # << >>
    /\ \E e \in Head(walk_stack) :
           /\ FilterEntryCruft(e) # None
           /\ found_dirs' =
                  Append(found_dirs, FoundCruft(e, FilterEntryCruft(e)[1]))
           /\ walk_stack' =
                  IF e.depth < max_depth
                  THEN <<ChildEntries(e), Head(walk_stack) \ {e}>>
                       \o Tail(walk_stack)
                  ELSE <<Head(walk_stack) \ {e}>> \o Tail(walk_stack)
    /\ visited' = visited + 1
    /\ UNCHANGED <<scan_complete_flag, disk, pc, key, remove_result,
                   max_depth>>
    /\ UNCHANGED lock_vars
    /\ UNCHANGED app_vars

WalkCruft ==
    /\ walk_stack # << >>
    /\ \E e \in Head(walk_stack) :
           /\ FilterEntryCruft(e) # None
           /\ found_dirs' =
                  Append(found_dirs, FoundCruft(e, FilterEntryCruft(e)[1]))
           /\ walk_stack' = <<Head(walk_stack) \ {e}>> \o Tail(walk_stack)
    /\ visited' = visited + 1
    /\ UNCHANGED <<scan_complete_flag, disk, pc, key, remove_result,
                   max_depth>>
    /\ UNCHANGED lock_vars
    /\ UNCHANGED app_vars

\* the next directory WalkDir yields is not cruft: the walk descends into
\* it unless it lies at max_depth
WalkDescend ==
    /\ walk_stack # << >>
    /\ \E e \in Head(walk_stack) :
           /\ FilterEntryCruft(e) = None
           /\ walk_stack' =
                  IF e.depth < max_depth
                  THEN <<ChildEntries(e), Head(walk_stack) \ {e}>>
                       \o Tail(walk_stack)
                  ELSE <<Head(walk_stack) \ {e}>> \o Tail(walk_stack)
    /\ UNCHANGED <<found_dirs, scan_complete_flag, visited, disk, pc, key,
                   remove_result, max_depth>>
    /\ UNCHANGED lock_vars
    /\ UNCHANGED app_vars

\* the directory on top of the stack is exhausted
WalkPop ==
    /\ walk_stack # << >>
    /\ Head(walk_stack) = {}
    /\ walk_stack' = Tail(walk_stack)
    /\ UNCHANGED <<found_dirs, scan_complete_flag, visited, disk, pc, key,
                   remove_result, max_depth>>
    /\ UNCHANGED lock_vars
    /\ UNCHANGED app_vars

\* scan_directories has returned
WalkFinish ==
    /\ walk_stack = << >>
    /\ ~scan_complete_flag
    /\ scan_complete_flag' = TRUE
    /\ UNCHANGED <<found_dirs, visited, disk, pc, key, remove_result,
                   walk_stack, max_depth>>
    /\ UNCHANGED lock_vars
    /\ UNCHANGED app_vars

\* the session renders and polls while the scan runs; no key is pressed
RenderWalk ==
    /\ pc = "render"
    /\ scan_complete' = (scan_complete \/ scan_complete_flag)
    /\ selected_index' = ClampSelection(selected_index, Len(View))
    /\ pc' = "poll"
    /\ UNCHANGED <<found_dirs, scan_complete_flag, visited, disk, show_help,
                   confirm_delete, min_size_bytes, show_all_types,
                   max_age_days, sort_order, key, remove_result, walk_stack,
                   max_depth>>
    /\ UNCHANGED lock_vars

NextWalk ==
    \/ WalkCruft
    \/ WalkDescend
    \/ WalkPop
    \/ WalkFinish
    \/ RenderWalk
    \/ PollTimeout

SpecWalk == InitWalk /\ [][NextWalk]_vars

----------------------------------------------------------------------------
(* The scanner thread and the session loop, one step per Mutex operation *)

\* filter_entry measures the next cruft directory and builds cruft_dir
LockBuild ==
    /\ pc # "exited"
    /\ wpc = "walk"
    /\ visited < NumDirs
    /\ cruft_dir' = Some(CruftDirectory(visited + 1))
    /\ wpc' = "built"
    /\ UNCHANGED <<found_dirs, scan_complete_flag, visited, disk, pc, key,
                   remove_result, walk_stack, max_depth, lock>>
    /\ UNCHANGED app_vars

\* found_dirs.lock() in filter_entry
LockScannerAcquire_Mutant ==
    /\ pc # "exited"
    /\ wpc = "built"
    /\ lock' = "scanner"
    /\ wpc' = "locked"
    /\ UNCHANGED <<found_dirs, scan_complete_flag, visited, disk, pc, key,
                   remove_result, walk_stack, max_depth, cruft_dir>>
    /\ UNCHANGED app_vars

LockScannerAcquire ==
    /\ pc # "exited"
    /\ wpc = "built"
    /\ lock = "free"
    /\ lock' = "scanner"
    /\ wpc' = "locked"
    /\ UNCHANGED <<found_dirs, scan_complete_flag, visited, disk, pc, key,
                   remove_result, walk_stack, max_depth, cruft_dir>>
    /\ UNCHANGED app_vars

\* dirs.push(cruft_dir); the guard is dropped
LockPush ==
    /\ pc # "exited"
    /\ wpc = "locked"
    /\ found_dirs' = Append(found_dirs, cruft_dir[1])
    /\ visited' = visited + 1
    /\ cruft_dir' = None
    /\ lock' = "free"
    /\ wpc' = "walk"
    /\ UNCHANGED <<scan_complete_flag, disk, pc, key, remove_result,
                   walk_stack, max_depth>>
    /\ UNCHANGED app_vars

\* scan_directories has returned
LockFinish ==
    /\ wpc = "walk"
    /\ UNCHANGED lock_vars
    /\ WalkerFinish

\* completion check; terminal.draw takes found_dirs.lock()
LockRenderAcquire ==
    /\ pc = "render"
    /\ lock = "free"
    /\ scan_complete' = (scan_complete \/ scan_complete_flag)
    /\ lock' = "session"
    /\ pc' = "draw"
    /\ key' = "none"
    /\ remove_result' = "none"
    /\ UNCHANGED <<found_dirs, scan_complete_flag, visited, disk,
                   selected_index, show_help, confirm_delete, min_size_bytes,
                   show_all_types, max_age_days, sort_order, walk_stack,
                   max_depth, wpc, cruft_dir>>

\* terminal.draw filters the snapshot and clamps the selection; the guard
\* is dropped at the end of the closure
LockRenderDraw_Mutant ==
    /\ pc = "draw"
    /\ selected_index' = ClampSelection(selected_index, Len(View))
    /\ pc' = "poll"
    /\ UNCHANGED <<found_dirs, scan_complete_flag, visited, disk, show_help,
                   confirm_delete, min_size_bytes, show_all_types,
                   max_age_days, sort_order, scan_complete, key,
                   remove_result, walk_stack, max_depth, lock, wpc,
                   cruft_dir>>

LockRenderDraw ==
    /\ pc = "draw"
    /\ selected_index' = ClampSelection(selected_index, Len(View))
    /\ lock' = "free"
    /\ pc' = "poll"
    /\ UNCHANGED <<found_dirs, scan_complete_flag, visited, disk, show_help,
                   confirm_delete, min_size_bytes, show_all_types,
                   max_age_days, sort_order, scan_complete, key,
                   remove_result, walk_stack, max_depth, wpc, cruft_dir>>

\* Down: found_dirs.lock() for dirs.len(), dropped at once
LockKeyDown == lock = "free" /\ KeyDown

\* 'd': found_dirs.lock() for the filtered view, dropped at once
LockKeyD == lock = "free" /\ KeyD

\* 'D': found_dirs.lock() when an index is selected
LockShiftDAcquire ==
    /\ pc = "poll"
    /\ key' = "D"
    /\ remove_result' = "none"
    /\ IF selected_index # None
       THEN /\ lock = "free"
            /\ lock' = "session"
            /\ pc' = "D_locked"
       ELSE /\ pc' = "render"
            /\ UNCHANGED lock
    /\ UNCHANGED <<found_dirs, scan_complete_flag, visited, disk, walk_stack,
                   max_depth, wpc, cruft_dir>>
    /\ UNCHANGED app_vars

\* 'D': remove_dir_all, retain and the selection update under the guard
LockShiftDRemove ==
    /\ pc = "D_locked"
    /\ IF selected_index[1] < Len(View)
       THEN LET path_to_delete == View[selected_index[1] + 1].path
            IN  IF remove_dir_all_ok(path_to_delete)
                THEN /\ remove_result' = "ok"
                     /\ disk' = disk \ {path_to_delete}
                     /\ found_dirs' = RetainPath(found_dirs, path_to_delete)
                     /\ selected_index' =
                            SelectionAfterDelete(selected_index, found_dirs')
                ELSE /\ remove_result' = "err"
                     /\ UNCHANGED <<disk, found_dirs, selected_index>>
       ELSE /\ remove_result' = "none"
            /\ UNCHANGED <<disk, found_dirs, selected_index>>
    /\ lock' = "free"
    /\ pc' = "render"
    /\ UNCHANGED <<scan_complete_flag, visited, show_help, confirm_delete,
                   min_size_bytes, show_all_types, max_age_days, sort_order,
                   scan_complete, key, walk_stack, max_depth, wpc, cruft_dir>>

\* 'y': confirm_delete.take() and found_dirs.lock(); until the handler ends
\* confirm_delete stands for its local path_str
LockYAcquire ==
    /\ pc = "poll"
    /\ key' = "y"
    /\ remove_result' = "none"
    /\ IF confirm_delete # None
       THEN /\ lock = "free"
            /\ lock' = "session"
            /\ pc' = "y_locked"
       ELSE /\ pc' = "render"
            /\ UNCHANGED lock
    /\ UNCHANGED <<found_dirs, scan_complete_flag, visited, disk, walk_stack,
                   max_depth, wpc, cruft_dir>>
    /\ UNCHANGED app_vars

\* 'y': retain and the selection update under the guard
LockYRetain ==
    /\ pc = "y_locked"
    /\ found_dirs' = RetainPathStr(found_dirs, confirm_delete[1])
    /\ selected_index' = SelectionAfterDelete(selected_index, found_dirs')
    /\ lock' = "free"
    /\ pc' = "y_remove"
    /\ UNCHANGED <<scan_complete_flag, visited, disk, show_help,
                   confirm_delete, min_size_bytes, show_all_types,
                   max_age_days, sort_order, scan_complete, key,
                   remove_result, walk_stack, max_depth, wpc, cruft_dir>>

\* 'y': remove_dir_all after the guard is dropped
LockYRemove ==
    /\ pc = "y_remove"
    /\ LET path == PathBufFrom(confirm_delete[1])
       IN  /\ remove_result' = IF remove_dir_all_ok(path) THEN "ok" ELSE "err"
           /\ disk' = IF remove_dir_all_ok(path) THEN disk \ {path} ELSE disk
    /\ confirm_delete' = None
    /\ pc' = "render"
    /\ UNCHANGED <<found_dirs, scan_complete_flag, visited, selected_index,
                   show_help, min_size_bytes, show_all_types, max_age_days,
                   sort_order, scan_complete, key, walk_stack, max_depth,
                   lock, wpc, cruft_dir>>

NextLock ==
    \/ LockBuild
    \/ LockScannerAcquire
    \/ LockPush
    \/ LockFinish
    \/ LockRenderAcquire
    \/ LockRenderDraw
    \/ PollTimeout
    \/ LockKeyDown
    \/ LockKeyD
    \/ LockShiftDAcquire
    \/ LockShiftDRemove
    \/ LockYAcquire
    \/ LockYRetain
    \/ LockYRemove
    \/ KeyQ
    \/ ProcessExit

SpecLock == Init /\ [][NextLock]_vars

\* Both threads run: the scanner thread takes each of its steps, it obtains
\* the Mutex when the Mutex is free again and again, and the session leaves
\* each of its critical sections.
FairLock ==
    /\ SpecLock
    /\ WF_vars(LockBuild)
    /\ SF_vars(LockScannerAcquire)
    /\ WF_vars(LockPush)
    /\ WF_vars(LockFinish)
    /\ WF_vars(LockRenderDraw)
    /\ WF_vars(LockShiftDRemove)
    /\ WF_vars(LockYRetain)

----------------------------------------------------------------------------
(* filter_dirs over a Registry of any content and order *)

\* largest number of entries in the Registry
MaxEntries == 3

\* entries a scan can have pushed: "/b", "/a", "/c", "/ab", "/B", "/d", with
\* sizes at, below and above the 1 MB threshold, equal sizes, equal ages,
\* ages at and next to the thresholds, and age 0 for a directory without
\* files
Palette ==
    << [path |-> <<47, 98>>, size |-> MB, crufty_reason |-> "NodeModules",
        newest_file_age_days |-> 90],
       [path |-> <<47, 97>>, size |-> MB, crufty_reason |-> "DistDir",
        newest_file_age_days |-> 0],
       [path |-> <<47, 99>>, size |-> MB - 1, crufty_reason |-> "CacheDir",
        newest_file_age_days |-> 365],
       [path |-> <<47, 97, 98>>, size |-> 3 * MB, crufty_reason |-> "TempDir",
        newest_file_age_days |-> 90],
       [path |-> <<47, 66>>, size |-> 3 * MB, crufty_reason |-> "BuildDir",
        newest_file_age_days |-> 89],
       [path |-> <<47, 100>>, size |-> 0, crufty_reason |-> "VenvDir",
        newest_file_age_days |-> 180] >>

\* the Registry contents: sequences of distinct entries
Registries ==
    LET picks == UNION {[1..n -> DOMAIN Palette] : n \in 0..MaxEntries}
    IN  {[k \in DOMAIN f |-> Palette[f[k]]] :
             f \in {g \in picks :
                        \A i, j \in DOMAIN g : g[i] = g[j] => i = j}}

InitFilter ==
    /\ found_dirs \in Registries
    /\ scan_complete_flag = TRUE
    /\ visited = 0
    /\ disk = {}
    /\ selected_index = Some(0)
    /\ show_help = FALSE
    /\ confirm_delete = None
    /\ min_size_bytes = MB
    /\ show_all_types = FALSE
    /\ max_age_days = None
    /\ sort_order = "SizeDescending"
    /\ scan_complete = FALSE
    /\ pc = "render"
    /\ key = "none"
    /\ remove_result = "none"
    /\ walk_stack = << >>
    /\ max_depth = 0
    /\ lock = "free"
    /\ wpc = "walk"
    /\ cruft_dir = None

NextFilter ==
    \/ Render
    \/ PollTimeout
    \/ KeyA
    \/ KeyS
    \/ KeyO
    \/ KeyR

SpecFilter == InitFilter /\ [][NextFilter]_vars

----------------------------------------------------------------------------
(* Type invariant of Spec, SpecLock and SpecFilter *)

TypeOK ==
    /\ visited \in 0..NumDirs
    /\ disk \subseteq TreePaths
    /\ Len(selected_index) <= 1
    /\ Len(confirm_delete) <= 1
    /\ pc \in {"render", "draw", "poll", "D_locked", "y_locked", "y_remove",
              "quit", "exited"}
    /\ lock \in {"free", "scanner", "session"}
    /\ wpc \in {"walk", "built", "locked"}
    /\ Len(cruft_dir) <= 1
    /\ key \in {"none", "q", "Down", "Up", "h", "a", "s", "o", "r", "d", "D",
                "y", "n"}
    /\ remove_result \in {"none", "ok", "err"}

----------------------------------------------------------------------------
(* Vocabulary of the properties *)

\* paths the walker has appended so far
Appended == {TreePath(i) : i \in 1..visited}

RegistryPaths == {found_dirs[i].path : i \in DOMAIN found_dirs}

ViewPaths == {View[i].path : i \in DOMAIN View}

\* Browsing / ConfirmPending
ConfirmPending == confirm_delete # None

\* the selection names an entry of the view
HasSelection ==
    selected_index # None /\ selected_index[1] < Len(View)

\* the path of the selected entry (when HasSelection)
SelectedPath == View[selected_index[1] + 1].path

\* the selection names an entry of the view, or is none exactly when the
\* view is empty
SelectionNamesView ==
    IF Len(View) = 0 THEN selected_index = None ELSE HasSelection

----------------------------------------------------------------------------
(* C1 *)

\* C1: an entry the walker appended is missing from the Registry only if
\* its removal from the filesystem succeeded: a failed removal, by confirm
\* or by the immediate delete, leaves the entry in the Registry.
C1_FailedRemovalKeepsEntry ==
    \A p \in Appended : p \notin RegistryPaths => p \notin disk

----------------------------------------------------------------------------
(* C2 *)

----------------------------------------------------------------------------
(* C3 *)

\* C3: a delete-request in Browsing enters ConfirmPending exactly when a
\* selection exists, storing the path of the entry selected in the filtered
\* and sorted view; with no selection the session stays in Browsing.
C3_DeleteRequest ==
    [][(pc = "poll" /\ key' = "d" /\ ~ConfirmPending)
       => IF selected_index # None
          THEN /\ HasSelection
               /\ confirm_delete' = Some(to_string_lossy(SelectedPath))
          ELSE confirm_delete' = None]_vars

C3_Witness ==
    /\ pc = "render"
    /\ key = "d"
    /\ HasSelection
    /\ selected_index[1] > 0
    /\ confirm_delete = Some(to_string_lossy(SelectedPath))
    /\ found_dirs[selected_index[1] + 1].path # SelectedPath

----------------------------------------------------------------------------
(* C4 *)

\* C4: from ConfirmPending, cancel and confirm both return to Browsing with
\* the pending path cleared, whether the removal succeeds or fails.
C4_PendingCleared ==
    [][(pc = "poll" /\ ConfirmPending /\ key' \in {"y", "n"})
       => confirm_delete' = None]_vars

C4_Witness ==
    /\ pc = "render"
    /\ key = "y"
    /\ remove_result = "err"
    /\ ~ConfirmPending

----------------------------------------------------------------------------
(* C5 *)

\* C5: while a deletion is pending confirmation the immediate-delete key
\* removes nothing from the filesystem or the Registry.
C5_ImmediateDeleteOnlyInBrowsing ==
    [][(pc = "poll" /\ ConfirmPending /\ key' = "D")
       => UNCHANGED <<disk, found_dirs>>]_vars

----------------------------------------------------------------------------
(* C6 *)

\* C6: the filter and sort keys leave FilterConfig and SortKey unchanged in
\* ConfirmPending; in Browsing each advances its own setting to the next
\* value of its enumeration, wrapping, and leaves the other settings alone.
C6_CycleOnlyInBrowsing ==
    [][(pc = "poll" /\ key' \in {"a", "s", "o", "r"})
       => IF ConfirmPending
          THEN UNCHANGED <<show_all_types, min_size_bytes, max_age_days,
                           sort_order>>
          ELSE /\ show_all_types' =
                      IF key' = "a" THEN ~show_all_types ELSE show_all_types
               /\ min_size_bytes' =
                      IF key' = "s"
                      THEN (IF min_size_bytes = 0 THEN MB ELSE 0)
                      ELSE min_size_bytes
               /\ max_age_days' =
                      IF key' = "o"
                      THEN (CASE max_age_days = None -> Some(90)
                              [] max_age_days = Some(90) -> Some(180)
                              [] max_age_days = Some(180) -> Some(365)
                              [] max_age_days = Some(365) -> None)
                      ELSE max_age_days
               /\ sort_order' =
                      IF key' = "r"
                      THEN (CASE sort_order = "SizeDescending" ->
                                     "AgeDescending"
                              [] sort_order = "AgeDescending" ->
                                     "Alphabetical"
                              [] sort_order = "Alphabetical" ->
                                     "SizeDescending")
                      ELSE sort_order]_vars

----------------------------------------------------------------------------
(* C7 *)

\* C7: if the entry selected while the session waits for a key still passes
\* the filter after a walker append, a sort-order change or the deletion of
\* another entry, the selection names the same path as before.
C7_SelectionByPath ==
    [][(/\ pc = "poll"
        /\ HasSelection
        /\ \/ Len(found_dirs') = Len(found_dirs) + 1
           \/ sort_order' # sort_order
           \/ Len(found_dirs') < Len(found_dirs)
        /\ SelectedPath \in ViewPaths')
       => (HasSelection' /\ SelectedPath' = SelectedPath)]_vars

----------------------------------------------------------------------------
(* C8 *)

\* the view before the filter key of this iteration was handled
PreviousView ==
    filter_dirs(found_dirs,
                IF key = "s" THEN (IF min_size_bytes = 0 THEN MB ELSE 0)
                ELSE min_size_bytes,
                IF key = "a" THEN ~show_all_types ELSE show_all_types,
                max_age_days, sort_order)

\* C8: when a change takes the selected path out of the filtered view, the
\* re-validation makes the selection the first entry of the new view, or
\* none if the new view is empty: in the deletion handlers, and in the
\* render that follows a type or size filter change (once the walk is over).
C8_FallBackToFirst ==
    [][/\ (/\ pc = "poll"
           /\ HasSelection
           /\ Len(found_dirs') < Len(found_dirs)
           /\ SelectedPath \notin ViewPaths')
          => selected_index' = IF Len(View') = 0 THEN None ELSE Some(0)
       /\ (/\ pc = "render"
           /\ pc' = "poll"
           /\ key \in {"a", "s"}
           /\ scan_complete_flag
           /\ selected_index # None
           /\ selected_index[1] < Len(PreviousView)
           /\ PreviousView[selected_index[1] + 1].path \notin ViewPaths)
          => selected_index' = IF Len(View) = 0 THEN None ELSE Some(0)]_vars

----------------------------------------------------------------------------
(* C9 *)

\* C9: whenever a key event is handled, the selection, when present, names
\* an entry of the currently filtered view.
C9_SelectionInView ==
    pc = "poll" => (selected_index = None \/ HasSelection)

C9_Witness ==
    /\ pc = "poll"
    /\ HasSelection
    /\ selected_index[1] = Len(View) - 1
    /\ Len(View) < Len(found_dirs)
    /\ Len(View) >= 2

----------------------------------------------------------------------------
(* C10 *)

\* C10: next and previous move the selection to the adjacent entry of the
\* filtered and sorted view, clamp at its last and first entry, and never
\* leave the selection past the end of the view.
C10_NavigationClamps ==
    [][(pc = "poll" /\ HasSelection /\ key' \in {"Down", "Up"})
       => /\ key' = "Down" =>
                 selected_index' =
                     IF selected_index[1] = Len(View) - 1
                     THEN selected_index
                     ELSE Some(selected_index[1] + 1)
          /\ key' = "Up" =>
                 selected_index' =
                     IF selected_index[1] = 0
                     THEN selected_index
                     ELSE Some(selected_index[1] - 1)
          /\ selected_index'[1] < Len(View')]_vars

----------------------------------------------------------------------------
(* C11 *)

\* C11: in every reachable state, whatever the interleaving of walker
\* appends and session deletions, no two entries of the Registry have the
\* same path.
C11_OneEntryPerPath ==
    \A i, j \in DOMAIN found_dirs :
        found_dirs[i].path = found_dirs[j].path => i = j

C11_Witness ==
    /\ Len(found_dirs) >= 2
    /\ Len(found_dirs) < visited

----------------------------------------------------------------------------
(* C12 *)

\* path a is an ancestor of path b
IsAncestor(a, b) == a # b /\ StartsWith(b, a \o s_slash)

\* C12: the walk never holds a directory below one it classified as cruft,
\* and of two distinct entries it appended neither path is an ancestor of
\* the other.
C12_Pruning ==
    /\ \A k \in DOMAIN walk_stack : \A e \in walk_stack[k] :
           \A i \in DOMAIN found_dirs : ~IsAncestor(found_dirs[i].path, e.path)
    /\ \A i, j \in DOMAIN found_dirs :
           ~IsAncestor(found_dirs[i].path, found_dirs[j].path)

\* the walk is over and found ./target, which holds a directory named build
C12_Witness ==
    /\ scan_complete_flag
    /\ max_depth >= 2
    /\ Len(found_dirs) >= 2
    /\ \E i \in DOMAIN found_dirs :
           /\ found_dirs[i].path = s_dot \o s_slash \o s_target
           /\ check_crufty(PathJoin(found_dirs[i].path, s_build), FALSE) # None

----------------------------------------------------------------------------
(* C13 *)

\* the scanner is inside its append
Appending == wpc = "locked"

\* the session is inside terminal.draw's snapshot
Snapshotting == pc = "draw"

\* the session is inside the retain of 'D' or of 'y'
Removing == pc \in {"D_locked", "y_locked"}

\* the entry carries the size, reason and newest-file age of its directory
Complete(dir) == \E i \in 1..NumDirs : dir = CruftDirectory(i)

\* C13: append, snapshot and remove never overlap, each runs only while its
\* thread holds the Mutex, and every entry a snapshot observes is complete.
C13_MutualExclusion ==
    /\ ~(Appending /\ (Snapshotting \/ Removing))
    /\ Appending => lock = "scanner"
    /\ (Snapshotting \/ Removing) => lock = "session"
    /\ Snapshotting => \A i \in DOMAIN found_dirs : Complete(found_dirs[i])

\* a snapshot is taken while the scanner waits with a built entry
C13_Witness ==
    /\ Snapshotting
    /\ wpc = "built"
    /\ Len(found_dirs) >= 1

----------------------------------------------------------------------------
(* C14 *)

\* C14: the completion flag is set only when the walk is over, nothing is
\* appended once it is set, and AppState.scan_complete never falls back to
\* false.
C14_CompletionIsFinal ==
    [][/\ (~scan_complete_flag /\ scan_complete_flag') => visited = NumDirs
       /\ scan_complete_flag =>
              (visited' = visited /\ Len(found_dirs') <= Len(found_dirs))
       /\ scan_complete_flag => scan_complete_flag'
       /\ scan_complete => scan_complete']_vars

\* the session has seen the completion of a walk that appended every entry
C14_Witness ==
    /\ scan_complete
    /\ scan_complete_flag
    /\ visited = NumDirs
    /\ pc = "poll"

----------------------------------------------------------------------------
(* C15 *)

\* C15 as stated: whatever the session does, quitting included, the walk
\* finishes and the completion flag becomes true.
C15_AlwaysCompletes == <>scan_complete_flag

\* C15: unless the process exits (the session has quit and main has
\* returned), the walk finishes and the completion flag becomes true, and a
\* scanner that waits for the Mutex obtains it.
C15_CompletesUnlessExited ==
    /\ <>(scan_complete_flag \/ pc = "exited")
    /\ (wpc = "built") ~> (wpc = "locked" \/ pc = "exited")

\* the walk has finished although the session deleted a directory meanwhile
C15_Witness ==
    /\ scan_complete_flag
    /\ disk # TreePaths
    /\ pc # "exited"

----------------------------------------------------------------------------
(* C16 *)

CommonSubset ==
    {"NodeModules", "CacheDir", "CacheTagFound", "BuildDir", "VenvDir",
     "ToxDir"}

\* the entry passes the size, type and age filters of the session
Qualifies(dir) ==
    /\ dir.size >= min_size_bytes
    /\ show_all_types \/ dir.crufty_reason \in CommonSubset
    /\ max_age_days = None \/ dir.newest_file_age_days >= max_age_days[1]

\* C16: the view holds exactly the Registry entries that pass the size, type
\* and age filters, each of them once.
C16_ViewIsFiltered ==
    /\ \A i \in DOMAIN found_dirs :
           Qualifies(found_dirs[i]) <=>
               \E k \in DOMAIN View : View[k] = found_dirs[i]
    /\ \A k \in DOMAIN View : \E i \in DOMAIN found_dirs :
           View[k] = found_dirs[i]
    /\ Len(View) =
           Cardinality({i \in DOMAIN found_dirs : Qualifies(found_dirs[i])})

\* all three filters are active and drop a part of the Registry
C16_Witness ==
    /\ min_size_bytes = MB
    /\ ~show_all_types
    /\ max_age_days = Some(90)
    /\ Len(View) >= 1
    /\ Len(View) < Len(found_dirs)
    /\ pc = "poll"

----------------------------------------------------------------------------
(* C18 *)

\* the position of an entry in the Registry
RegistryIndex(dir) == CHOOSE i \in DOMAIN found_dirs : found_dirs[i] = dir

\* entry a may stand before entry b under the active sort key
InOrder(a, b) ==
    CASE sort_order = "SizeDescending" ->
             \/ a.size > b.size
             \/ a.size = b.size /\ RegistryIndex(a) < RegistryIndex(b)
      [] sort_order = "AgeDescending" ->
             \/ a.newest_file_age_days > b.newest_file_age_days
             \/ /\ a.newest_file_age_days = b.newest_file_age_days
                /\ RegistryIndex(a) < RegistryIndex(b)
      [] sort_order = "Alphabetical" ->
             StrCmp(to_string_lossy(a.path), to_string_lossy(b.path)) < 0

\* C18: the view is ordered by the active sort key with equal keys in
\* Registry order, and sorting the view again by the same key leaves it as
\* it is.
C18_StableSort ==
    /\ \A k, l \in DOMAIN View : k < l => InOrder(View[k], View[l])
    /\ StableSort(View, sort_order) = View

\* three entries are shown, two of them of equal size, and not in Registry
\* order
C18_Witness ==
    /\ Len(View) = 3
    /\ sort_order = "SizeDescending"
    /\ \E k \in 1..2 : View[k].size = View[k + 1].size
    /\ View # found_dirs
    /\ pc = "poll"

----------------------------------------------------------------------------
(* C17 *)

\* "./app/node_modules" and "./app/dist"
AppNodeModules == s_dot \o s_slash \o s_app \o s_slash \o s_node_modules

AppDist == s_dot \o s_slash \o s_app \o s_slash \o s_dist

\* the scan of the scenario's tree to depth 3 is over: the Registry holds
\* app/node_modules (10 MB, newest file 2 days old) and app/dist (2 MB,
\* newest file 200 days old)
ScenarioScanned ==
    /\ scan_complete_flag
    /\ max_depth = 3
    /\ {found_dirs[i] : i \in DOMAIN found_dirs} =
           {[path |-> AppNodeModules, size |-> 10 * MB,
             crufty_reason |-> "NodeModules", newest_file_age_days |-> 2],
            [path |-> AppDist, size |-> 2 * MB,
             crufty_reason |-> "DistDir", newest_file_age_days |-> 200]}

\* 1 MB size threshold, no age filter, size descending
DefaultFilters ==
    /\ min_size_bytes = MB
    /\ max_age_days = None
    /\ sort_order = "SizeDescending"

\* the paths of the view, in its order
ViewPathSeq == [k \in DOMAIN View |-> View[k].path]

\* C17 as stated: under the default filters with common types only the view
\* of the scenario shows node_modules first and dist second.
C17_BothShown ==
    (ScenarioScanned /\ DefaultFilters /\ ~show_all_types)
        => ViewPathSeq = <<AppNodeModules, AppDist>>

\* C17: under the default filters with common types only the view of the
\* scenario shows node_modules alone, dist being a DistDir and no common
\* type; with all types shown it shows node_modules first and dist second.
C17_CommonOnlyShown ==
    (ScenarioScanned /\ DefaultFilters)
        => ViewPathSeq = IF show_all_types
                         THEN <<AppNodeModules, AppDist>>
                         ELSE <<AppNodeModules>>

\* the session has drawn the finished scan of the scenario with common
\* types only
C17_Witness ==
    /\ ScenarioScanned
    /\ DefaultFilters
    /\ ~show_all_types
    /\ scan_complete
    /\ pc = "poll"

----------------------------------------------------------------------------
(* C19 *)

\* the successors the rotation is to have
SortKeySuccessor(order) ==
    CASE order = "SizeDescending" -> "AgeDescending"
      [] order = "AgeDescending" -> "Alphabetical"
      [] order = "Alphabetical" -> "SizeDescending"

AgeFilterSuccessor(age) ==
    CASE age = None -> Some(90)
      [] age = Some(90) -> Some(180)
      [] age = Some(180) -> Some(365)
      [] age = Some(365) -> None

SizeFilterSuccessor(min) == IF min = 0 THEN MB ELSE 0

\* C19: 'r', 'o' and 's' move the sort key, the age filter and the size
\* filter to their successor; from the current value the successors return to
\* it after as many steps as the set has values and visit every value once.
C19_CyclicSuccessors ==
    /\ [][/\ (pc = "poll" /\ key' = "r")
                 => sort_order' = SortKeySuccessor(sort_order)
          /\ (pc = "poll" /\ key' = "o")
                 => max_age_days' = AgeFilterSuccessor(max_age_days)
          /\ (pc = "poll" /\ key' = "s")
                 => min_size_bytes' = SizeFilterSuccessor(min_size_bytes)]_vars
    /\ [](LET o1 == SortOrderNext(sort_order)
              o2 == SortOrderNext(o1)
              a1 == toggle_old_dirs(max_age_days)
              a2 == toggle_old_dirs(a1)
              a3 == toggle_old_dirs(a2)
              m1 == toggle_skip_small(min_size_bytes)
          IN  /\ SortOrderNext(o2) = sort_order
              /\ {sort_order, o1, o2} =
                     {"SizeDescending", "AgeDescending", "Alphabetical"}
              /\ toggle_old_dirs(a3) = max_age_days
              /\ {max_age_days, a1, a2, a3} =
                     {None, Some(90), Some(180), Some(365)}
              /\ toggle_skip_small(m1) = min_size_bytes
              /\ {min_size_bytes, m1} = {0, MB})

\* 'r' has just wrapped the sort key from the last value to the first, with
\* the age filter at its last value and the size filter at "all"
C19_Witness ==
    /\ key = "r"
    /\ sort_order = "SizeDescending"
    /\ max_age_days = Some(365)
    /\ min_size_bytes = 0

----------------------------------------------------------------------------
(* C20 *)

ProtectedNames == {s_dotgit, s_dotgithub, s_dotvscode, s_dotidea}

\* the components of a path: its maximal parts without a slash
Segments(path) ==
    LET bounds == {p \in (1..Len(path)) \X (1..Len(path)) :
                      /\ p[1] <= p[2]
                      /\ \A k \in p[1]..p[2] : path[k] # 47
                      /\ p[1] = 1 \/ path[p[1] - 1] = 47
                      /\ p[2] = Len(path) \/ path[p[2] + 1] = 47}
    IN  {SubSeq(path, p[1], p[2]) : p \in bounds}

HasProtectedSegment(path) == Segments(path) \cap ProtectedNames # {}

\* C20: a directory the walk reaches below or at a protected name is not
\* cruft, with or without a cache-tag marker, and none is in the Registry.
C20_ProtectedIsNeverCruft ==
    /\ \A k \in DOMAIN walk_stack : \A e \in walk_stack[k] :
           HasProtectedSegment(e.path) =>
               /\ check_crufty(e.path, TRUE) = None
               /\ check_crufty(e.path, FALSE) = None
    /\ \A i \in DOMAIN found_dirs : ~HasProtectedSegment(found_dirs[i].path)

----------------------------------------------------------------------------
(* C21 *)

\* the names of the claim and the reason each is to get
PatternNames ==
    {s_node_modules, s_dottox, s_build, s_mydashprojectdashtmp, s_templates,
     s_rebuilddashnotes}

ExpectedReason(name) ==
    CASE name = s_node_modules -> Some("NodeModules")
      [] name = s_dottox -> Some("ToxDir")
      [] name = s_build -> Some("BuildDir")
      [] name = s_mydashprojectdashtmp -> Some("TempDir")
      [] name = s_templates -> None
      [] name = s_rebuilddashnotes -> None

\* C21: a directory the walk reaches that has one of the names node_modules,
\* .tox, build, my-project-tmp, templates, rebuild-notes, holds no cache-tag
\* marker and lies below no protected name gets the expected reason, none
\* for templates and rebuild-notes.
C21_ExpectedReasons ==
    \A k \in DOMAIN walk_stack : \A e \in walk_stack[k] :
        (/\ FsDirs[e.node].name \in PatternNames
         /\ ~FsDirs[e.node].tag
         /\ ~HasProtectedSegment(e.path))
            => FilterEntryCruft(e) = ExpectedReason(FsDirs[e.node].name)

----------------------------------------------------------------------------
(* C22 *)

ReasonSet ==
    {"NodeModules", "CacheDir", "CacheTagFound", "BuildDir",
     "LanguageTargetDir", "TempDir", "VenvDir", "DistDir", "ToxDir"}

\* C22: a directory named target that holds the build tool's marker file is
\* classified LanguageTargetDir, and every reason in the Registry lies in
\* the closed reason set.
C22_TargetWithMarker ==
    /\ \A k \in DOMAIN walk_stack : \A e \in walk_stack[k] :
           (/\ FsDirs[e.node].name = s_target
            /\ e.node \in MarkerDirs
            /\ ~HasProtectedSegment(e.path))
               => FilterEntryCruft(e) = Some("LanguageTargetDir")
    /\ \A i \in DOMAIN found_dirs : found_dirs[i].crufty_reason \in ReasonSet

----------------------------------------------------------------------------
(* C23 *)

\* C23: the pending path changes only by 'd', 'n' and 'y', and 'y' removes
\* from the filesystem and from the Registry no other path than the pending
\* one, whatever the selection, the view and the Registry have become since
\* the request.
C23_ConfirmRemovesPendingPath ==
    [][/\ (ConfirmPending /\ confirm_delete' # confirm_delete)
              => (pc = "poll" /\ key' \in {"d", "n", "y"})
       /\ (pc = "poll" /\ key' = "y" /\ ConfirmPending)
              => /\ disk \ disk' \subseteq {PathBufFrom(confirm_delete[1])}
                 /\ \A p \in RegistryPaths \ RegistryPaths' :
                        to_string_lossy(p) = confirm_delete[1]
                 /\ PathBufFrom(confirm_delete[1]) \notin RegistryPaths']_vars

\* a deletion is pending for a directory on disk, and by now another entry
\* is selected, the sort key has changed and the Registry is complete
C23_Witness ==
    /\ ConfirmPending
    /\ pc = "poll"
    /\ PathBufFrom(confirm_delete[1]) \in disk \cap RegistryPaths
    /\ HasSelection
    /\ to_string_lossy(SelectedPath) # confirm_delete[1]
    /\ sort_order # "SizeDescending"
    /\ visited = NumDirs

----------------------------------------------------------------------------
(* C24 *)

\* C24: remove_dir_all is called only while the Mutex is free, so that the
\* scanner's append never waits for a removal.
C24_NoIoUnderLock ==
    [][(remove_result = "none" /\ remove_result' # "none")
           => lock = "free"]_vars

----------------------------------------------------------------------------
(* C28 *)

\* C28: a pending path names an entry of the Registry.
C28_PendingPathInRegistry ==
    ConfirmPending =>
        \E i \in DOMAIN found_dirs :
            to_string_lossy(found_dirs[i].path) = confirm_delete[1]

----------------------------------------------------------------------------
(* C25 *)

\* dirs is the Registry with some of its entries left out, the others as
\* they were and in their order
IsRemovalOf(dirs) ==
    \E gone \in SUBSET {found_dirs[i] : i \in DOMAIN found_dirs} :
        /\ gone # {}
        /\ dirs = SelectSeq(found_dirs, LAMBDA dir : dir \notin gone)

\* C25: the Registry changes only by an append of the scanner or by 'D' or
\* 'y' leaving out whole entries; no other key changes it, and an entry
\* that stays keeps its path, size, reason and age.
C25_EntriesImmutable ==
    [][found_dirs' # found_dirs =>
           \/ /\ \E dir \in {found_dirs'[i] : i \in DOMAIN found_dirs'} :
                     found_dirs' = Append(found_dirs, dir)
              /\ visited' = visited + 1
              /\ pc' = pc
           \/ /\ pc = "poll"
              /\ key' \in {"D", "y"}
              /\ IsRemovalOf(found_dirs')]_vars

\* the sort key has just been changed over a Registry of all entries that
\* is not in the order of the view
C25_Witness ==
    /\ key = "r"
    /\ Len(found_dirs) = NumDirs
    /\ Len(View) = NumDirs
    /\ View # found_dirs

----------------------------------------------------------------------------
(* C26 *)

\* C26: a path the scanner has appended and a deletion has removed from the
\* Registry is never in the Registry again.
C26_NoReappend ==
    [][\A p \in Appended \ RegistryPaths : p \notin RegistryPaths']_vars

\* an earlier path was deleted from the disk and the Registry, and the scan
\* has run to its end with its last entry in the Registry
C26_Witness ==
    /\ \E i \in 1..(NumDirs - 1) : TreePath(i) \notin RegistryPaths \cup disk
    /\ visited = NumDirs
    /\ TreePath(NumDirs) \in RegistryPaths
    /\ scan_complete_flag

----------------------------------------------------------------------------
(* C27 *)

\* size thresholds below, at and above the sizes of the entries
Thresholds == {0, MB - 1, MB, MB + 1, 3 * MB, 3 * MB + 1}

\* the view under the current type, age and sort settings with threshold min
ViewAt(min) ==
    filter_dirs(found_dirs, min, show_all_types, max_age_days, sort_order)

\* C27: of two thresholds the higher one shows a subset of what the lower
\* one shows.
C27_MonotonicInMinSize ==
    \A lo, hi \in Thresholds :
        lo <= hi =>
            /\ {ViewAt(hi)[k] : k \in DOMAIN ViewAt(hi)} \subseteq
                   {ViewAt(lo)[k] : k \in DOMAIN ViewAt(lo)}
            /\ Len(ViewAt(hi)) <= Len(ViewAt(lo))

\* 's' has just raised the threshold to 1 MB, which hides a part of what
\* threshold 0 shows
C27_Witness ==
    /\ key = "s"
    /\ min_size_bytes = MB
    /\ Len(View) >= 1
    /\ Len(View) < Len(ViewAt(0))

----------------------------------------------------------------------------
(* C29 *)

\* C29: 'n', and 'y' without a pending deletion, leave the Registry, the
\* filesystem, the filters, the sort key and the selection as they are, and
\* no deletion is pending afterwards.
C29_CancelIsNoOp ==
    [][(pc = "poll" /\ (key' = "n" \/ (key' = "y" /\ ~ConfirmPending)))
           => /\ UNCHANGED <<found_dirs, disk, min_size_bytes, show_all_types,
                             max_age_days, sort_order, selected_index>>
              /\ confirm_delete' = None]_vars

\* a cancel has just been handled with the second entry selected
C29_Witness ==
    /\ key = "n"
    /\ pc = "render"
    /\ selected_index = Some(1)
    /\ Len(View) >= 2
    /\ ~ConfirmPending

====
